---- MODULE Spec2Model ----
(***************************************************************************)
(* Request flow of app.py: get_ip_address, get_geolocation_data, index and *)
(* the process-wide IP_CACHE, with the two external services               *)
(* (api64.ipify.org, ip-api.com) as the environment.  The server handles   *)
(* requests concurrently; a request in flight is the record of its locals, *)
(* and the requests in flight are a bag of such records.                   *)
(*                                                                         *)
(* Python strings that the code inspects (split, strip, ==, in) are        *)
(* sequences of tokens: an address token, "," , " " or the word "Unable".  *)
(* No concatenation of the other tokens contains the word "Unable", so     *)
(* the substring test of line 85 is membership of that token.              *)
(***************************************************************************)
EXTENDS Naturals, Sequences, FiniteSets, Bags, TLC

\* Number of requests the server handles at the same time.
MaxInFlight == 2

----------------------------------------------------------------------------
(* Strings *)

Loopback == <<"127.0.0.1">>
PublicIP == <<"8.8.8.8">>
EmptyStr == <<>>
UnableWord == "Unable"
\* "Unable to fetch public IP", line 36
UnableToFetch == <<"Unable", " to fetch public IP">>

\* str.split(',')[0]: the text before the first comma
RECURSIVE FirstField(_)
FirstField(s) ==
    IF s = <<>> THEN <<>>
    ELSE IF Head(s) = "," THEN <<>>
    ELSE <<Head(s)>> \o FirstField(Tail(s))

RECURSIVE LStrip(_)
LStrip(s) ==
    IF s # <<>> /\ Head(s) = " " THEN LStrip(Tail(s)) ELSE s

RECURSIVE RStrip(_)
RStrip(s) ==
    IF s # <<>> /\ s[Len(s)] = " " THEN RStrip(SubSeq(s, 1, Len(s) - 1)) ELSE s

\* str.strip()
Strip(s) == RStrip(LStrip(s))

\* `word in s` for a Python string s, line 85
Contains(s, word) == \E i \in 1..Len(s) : s[i] = word

----------------------------------------------------------------------------
(* Inbound requests *)

\* request.headers.getlist("X-Forwarded-For"): the list of the header's
\* values, empty when the header is absent.  A WSGI server joins the lines
\* of a repeated header into one value, so the list has at most one.
XForwardedFor ==
    { <<>>,
      << <<>> >>,
      << <<"8.8.8.8">> >>,
      << <<" ", "8.8.8.8", " ", ",", " ", "127.0.0.1">> >>,
      << <<"127.0.0.1">> >>,
      << <<"Unable">> >> }

\* request.remote_addr
RemoteAddrs == { Loopback, PublicIP }

----------------------------------------------------------------------------
(* The external services *)

\* HTTP status codes the services answer with
OkCodes == { 200 }
OtherCodes == { 304, 404, 503 }
HttpCodes == OkCodes \cup OtherCodes

\* A JSON object is a function from its keys; a body is unparseable, or
\* parses to an object or to a value that is no object (an array).
JsonObject(o) == [parse |-> "ok", type |-> "object", obj |-> o]
JsonArray == [parse |-> "ok", type |-> "array"]
Unparseable == [parse |-> "error"]

\* dict.get(key, default)
Get(o, key, default) == IF key \in DOMAIN o THEN o[key] ELSE default

HttpAnswer(c, b) == [kind |-> "http", code |-> c, body |-> b]

\* What a service can answer: no answer at all (a transport failure), 200
\* with any of the bodies, another status with some of the bodies
HttpAnswers(bodies, otherBodies) ==
    { [kind |-> "transport"] } \cup
    { HttpAnswer(c, b) : c \in OkCodes, b \in bodies } \cup
    { HttpAnswer(c, b) : c \in OtherCodes, b \in otherBodies }

\* Bodies of https://api64.ipify.org?format=json
IpifyBodies ==
    { Unparseable, JsonArray,
      JsonObject([ip |-> PublicIP]),
      JsonObject([origin |-> PublicIP]) }

IpifyAnswers ==
    HttpAnswers(IpifyBodies, { Unparseable, JsonObject([ip |-> PublicIP]) })

SuccessA == [status |-> "success", city |-> "Mountain View"]
SuccessB == [status |-> "success", city |-> "Sunnyvale"]
FailWithMessage == [status |-> "fail", message |-> "private range"]
FailNoMessage == [status |-> "fail"]

\* Bodies of http://ip-api.com/json/<ip>
GeoBodies ==
    { Unparseable, JsonArray,
      JsonObject(SuccessA), JsonObject(SuccessB),
      JsonObject(FailWithMessage), JsonObject(FailNoMessage) }

GeoAnswers ==
    HttpAnswers(GeoBodies,
                { Unparseable, JsonObject(SuccessA), JsonObject(FailWithMessage) })

\* raise_for_status() as it would be if only server errors raised
RaisesForStatus_ServerErrorsOnly(code) == code >= 500 /\ code < 600

\* Response.raise_for_status(): HTTPError for 4xx and 5xx
RaisesForStatus(code) == code >= 400 /\ code < 600

\* The requests release is not pinned.  Since 2.27 Response.json() raises
\* requests.exceptions.JSONDecodeError, a RequestException and a ValueError;
\* before, a plain ValueError.
RequestsReleases == { "before_2_27", "since_2_27" }

\* isinstance(exc, requests.exceptions.RequestException)
IsRequestException(exc, release) ==
    \/ exc \in { "ConnectionError", "HTTPError" }
    \/ exc = "JSONDecodeError" /\ release = "since_2_27"

\* isinstance(exc, ValueError)
IsValueError(exc) == exc = "JSONDecodeError"

----------------------------------------------------------------------------
(* The functions of app.py, without the state *)

\* Lines 21-25: the candidate address.  A Python list is true when it is
\* not empty.
Candidate(headers, remote) ==
    IF headers # <<>> THEN Strip(FirstField(headers[1])) ELSE remote

\* Lines 31-33: the try block of get_ip_address
IpifyTry(ans) ==
    IF ans.kind = "transport" THEN [exc |-> "ConnectionError"]
    ELSE IF RaisesForStatus(ans.code) THEN [exc |-> "HTTPError"]
    ELSE IF ans.body.parse = "error" THEN [exc |-> "JSONDecodeError"]
    ELSE IF ans.body.type # "object" THEN [exc |-> "TypeError"]
    ELSE IF "ip" \notin DOMAIN ans.body.obj THEN [exc |-> "KeyError"]
    ELSE [exc |-> "none", ip |-> ans.body.obj["ip"]]

\* Lines 30-38: the loopback branch of get_ip_address
IpifyResult(ans, release) ==
    LET t == IpifyTry(ans) IN
    IF t.exc = "none"
      THEN [kind |-> "return", value |-> t.ip, failed |-> FALSE]
    ELSE IF IsRequestException(t.exc, release)
      THEN [kind |-> "return", value |-> UnableToFetch, failed |-> TRUE]
    ELSE [kind |-> "raise", exc |-> t.exc]

Failure(message) == [error |-> TRUE, message |-> message]

ServiceUnavailable == Failure("Service unavailable or invalid IP.")
NetworkError == Failure("Network error while fetching geolocation data.")
ProcessingError == Failure("Error processing geolocation data.")
CouldNotDetermine == Failure("Could not determine your IP address.")

\* Lines 54-56: the calls of the try block of get_geolocation_data
GeoTry(ans) ==
    IF ans.kind = "transport" THEN [exc |-> "ConnectionError"]
    ELSE IF RaisesForStatus(ans.code) THEN [exc |-> "HTTPError"]
    ELSE IF ans.body.parse = "error" THEN [exc |-> "JSONDecodeError"]
    ELSE IF ans.body.type # "object" THEN [exc |-> "AttributeError"]
    ELSE [exc |-> "none", data |-> ans.body.obj]

\* Lines 59-64 as they would be without the test of the status
GeoStatus_NoStatusTest(data) ==
    [kind |-> "return", value |-> data, store |-> TRUE]

\* Lines 59-64: the body's status decides
GeoStatus(data) ==
    IF Get(data, "status", "None") = "success"
      THEN [kind |-> "return", value |-> data, store |-> TRUE]
      ELSE [kind |-> "return", store |-> FALSE,
            value |-> Failure(Get(data, "message", "Failed to get geolocation data."))]

\* Lines 66-73: the except clauses, in their order
GeoExcept(exc, release) ==
    IF exc = "HTTPError"
      THEN [kind |-> "return", value |-> ServiceUnavailable, store |-> FALSE]
    ELSE IF IsRequestException(exc, release)
      THEN [kind |-> "return", value |-> NetworkError, store |-> FALSE]
    ELSE IF IsValueError(exc)
      THEN [kind |-> "return", value |-> ProcessingError, store |-> FALSE]
    ELSE [kind |-> "raise", exc |-> exc]

\* Lines 53-73: get_geolocation_data after a cache miss
GeoResult(ans, release) ==
    LET t == GeoTry(ans) IN
    IF t.exc = "none" THEN GeoStatus(t.data) ELSE GeoExcept(t.exc, release)

\* The store as it would be if it replaced the dict
Put_Replacing(cache, ip, data) == [k \in {ip} |-> data]

\* IP_CACHE[ip] = data
Put(cache, ip, data) ==
    [k \in DOMAIN cache \cup {ip} |-> IF k = ip THEN data ELSE cache[k]]

----------------------------------------------------------------------------
(* State *)

VARIABLES
    IP_CACHE,   \* line 12: the dict, a function from its keys
    release,    \* the installed requests release
    requests    \* the requests in flight, a bag of records:
                \*   pc            where the request is
                \*   xff           its X-Forwarded-For lines
                \*   remote_addr   its remote address
                \*   ip_address    get_ip_address's local, lines 22-33
                \*   user_ip       index's local, line 82
                \*   location      index's local location_data, lines 86-88
                \*   ipifyCalls    outbound requests to ipify made for it
                \*   geoCalls      outbound requests to ip-api made for it
                \*   resolveFailed get_ip_address took its except branch
                \*   lookupCalled  index called get_geolocation_data

vars == << IP_CACHE, release, requests >>

\* Values of locals that are not bound
NoStr == <<"<unbound>">>
NoHeaders == << NoStr >>
NoLocation == [unbound |-> TRUE]

EmptyCache == [k \in {} |-> NoLocation]

InFlight == BagToSet(requests)

\* The request r goes on as r2
Becomes(r, r2) == requests' = (requests (-) SetToBag({r})) (+) SetToBag({r2})

Init ==
    /\ IP_CACHE = EmptyCache
    /\ release \in RequestsReleases
    /\ requests = EmptyBag

----------------------------------------------------------------------------
(* Steps of a request *)

\* A request arrives and get_ip_address chooses its candidate, lines 21-25
Receive ==
    /\ BagCardinality(requests) < MaxInFlight
    /\ \E h \in XForwardedFor, a \in RemoteAddrs :
          requests' = requests (+) SetToBag({
              [ pc |-> "resolve", xff |-> h, remote_addr |-> a,
                ip_address |-> Candidate(h, a), user_ip |-> NoStr,
                location |-> NoLocation, ipifyCalls |-> 0, geoCalls |-> 0,
                resolveFailed |-> FALSE, lookupCalled |-> FALSE ] })
    /\ UNCHANGED << IP_CACHE, release >>

\* Lines 29 and 38: a candidate other than '127.0.0.1' is returned as it is
ReturnCandidate(r) ==
    /\ r.pc = "resolve"
    /\ r.ip_address # Loopback
    /\ Becomes(r, [r EXCEPT !.pc = "index", !.user_ip = r.ip_address,
                            !.xff = NoHeaders, !.remote_addr = NoStr,
                            !.ip_address = NoStr])
    /\ UNCHANGED << IP_CACHE, release >>

\* Lines 29-38 with the answer ans of ipify
IpifyWith(r, ans) ==
    LET res == IpifyResult(ans, release)
        called == [r EXCEPT !.ipifyCalls = @ + 1, !.xff = NoHeaders,
                            !.remote_addr = NoStr, !.ip_address = NoStr]
    IN
    /\ r.pc = "resolve"
    /\ r.ip_address = Loopback
    /\ IF res.kind = "return"
         THEN Becomes(r, [called EXCEPT !.pc = "index",
                                        !.user_ip = res.value,
                                        !.resolveFailed = res.failed])
         ELSE Becomes(r, [called EXCEPT !.pc = "error500"])
    /\ UNCHANGED << IP_CACHE, release >>

\* Lines 29-38: the candidate '127.0.0.1' is replaced by what ipify reports
Ipify(r) == \E ans \in IpifyAnswers : IpifyWith(r, ans)

\* Lines 85-86: "Unable" in user_ip
SkipLookup(r) ==
    /\ r.pc = "index"
    /\ Contains(r.user_ip, UnableWord)
    /\ Becomes(r, [r EXCEPT !.pc = "render", !.location = CouldNotDetermine])
    /\ UNCHANGED << IP_CACHE, release >>

\* The lookup as it would be without lines 47-48
CacheLookup_NoCache(r) ==
    /\ r.pc = "index"
    /\ ~Contains(r.user_ip, UnableWord)
    /\ Becomes(r, [r EXCEPT !.pc = "fetch", !.lookupCalled = TRUE])
    /\ UNCHANGED << IP_CACHE, release >>

\* Lines 87-88 and 47-48: index calls get_geolocation_data, which looks
\* the address up in IP_CACHE
CacheLookup(r) ==
    /\ r.pc = "index"
    /\ ~Contains(r.user_ip, UnableWord)
    /\ IF r.user_ip \in DOMAIN IP_CACHE
         THEN Becomes(r, [r EXCEPT !.pc = "render", !.lookupCalled = TRUE,
                                   !.location = IP_CACHE[r.user_ip]])
         ELSE Becomes(r, [r EXCEPT !.pc = "fetch", !.lookupCalled = TRUE])
    /\ UNCHANGED << IP_CACHE, release >>

\* Lines 52-73 with the answer ans of ip-api
GeoFetchWith(r, ans) ==
    LET res == GeoResult(ans, release)
        called == [r EXCEPT !.geoCalls = @ + 1]
    IN
    /\ r.pc = "fetch"
    /\ IF res.kind = "return"
         THEN /\ Becomes(r, [called EXCEPT !.pc = "render",
                                           !.location = res.value])
              /\ IP_CACHE' = IF res.store
                               THEN Put(IP_CACHE, r.user_ip, res.value)
                               ELSE IP_CACHE
         ELSE /\ Becomes(r, [called EXCEPT !.pc = "error500"])
              /\ UNCHANGED IP_CACHE
    /\ UNCHANGED release

\* Lines 52-73: the cache missed, so ip-api is asked
GeoFetch(r) == \E ans \in GeoAnswers : GeoFetchWith(r, ans)

\* Line 91, or the exception leaving index: the request is over and its
\* locals are gone
Respond(r) ==
    /\ r.pc \in { "render", "error500" }
    /\ requests' = requests (-) SetToBag({r})
    /\ UNCHANGED << IP_CACHE, release >>

Next ==
    \/ Receive
    \/ \E r \in InFlight : ReturnCandidate(r)
    \/ \E r \in InFlight : Ipify(r)
    \/ \E r \in InFlight : SkipLookup(r)
    \/ \E r \in InFlight : CacheLookup(r)
    \/ \E r \in InFlight : GeoFetch(r)
    \/ \E r \in InFlight : Respond(r)

Spec == Init /\ [][Next]_vars

----------------------------------------------------------------------------
(* Properties *)

\* A success record of ip-api
IsSuccess(loc) == "status" \in DOMAIN loc /\ loc.status = "success"

\* A GeoResult failure
IsFailure(loc) ==
    /\ DOMAIN loc = { "error", "message" }
    /\ loc.error = TRUE

\* A step of the request r
StepOf(r) == CopiesIn(r, requests') < CopiesIn(r, requests)

\* A step in which the request r, and nothing else in flight, goes on as r2
Moves(r, r2) == r # r2 /\ StepOf(r) /\ Becomes(r, r2)

\* A step of get_geolocation_data's lookup, lines 47-48, from r to r2
LookupStep(r, r2) == r.pc = "index" /\ r2.lookupCalled /\ Moves(r, r2)

\* A step of get_geolocation_data's fetch, lines 52-73, from r to r2
FetchStep(r, r2) == r.pc = "fetch" /\ Moves(r, r2)

\* HTTP status 200-299
Is2xx(code) == code >= 200 /\ code < 300

(* C1 *)
\* What C1 asks of a step
C1_Step ==
    \A r \in InFlight, r2 \in BagToSet(requests') :
        /\ (FetchStep(r, r2) /\ IsSuccess(r2.location)) =>
              /\ r2.geoCalls = 1
              /\ r.user_ip \in DOMAIN IP_CACHE'
              /\ IP_CACHE'[r.user_ip] = r2.location
        /\ (LookupStep(r, r2) /\ r.user_ip \in DOMAIN IP_CACHE) =>
              /\ r2.pc = "render"
              /\ r2.geoCalls = 0
              /\ r2.location = IP_CACHE[r.user_ip]
              /\ IP_CACHE' = IP_CACHE

\* C1: a call of get_geolocation_data(ip) whose answer is a success record
\* makes exactly one outbound request and stores that record under ip; a
\* call that begins once ip is stored makes no outbound request, whatever
\* the service would answer, leaves IP_CACHE as it is and returns the
\* stored record.  So two calls in a row, the first answered with success,
\* make one outbound request in total.
C1_CacheHit == [][C1_Step]_vars

\* A request served from the cache: no outbound geolocation request
C1_Witness ==
    \E r \in InFlight :
        /\ r.pc = "render"
        /\ r.lookupCalled
        /\ r.geoCalls = 0
        /\ IsSuccess(r.location)
        /\ r.user_ip \in DOMAIN IP_CACHE

(* C2 *)
\* The status field of a body, "None" where it has none
BodyStatus(b) ==
    IF b.parse = "ok" /\ b.type = "object" THEN Get(b.obj, "status", "None")
    ELSE "None"

\* The failure paths as claimed: a transport error, a status outside
\* 200-299, an unparseable body, a body status other than "success"
ClaimedFailureAnswers ==
    { ans \in GeoAnswers :
        \/ ans.kind = "transport"
        \/ ~Is2xx(ans.code)
        \/ ans.body.parse = "error"
        \/ BodyStatus(ans.body) # "success" }

\* The failure paths as amended: a transport error, a status 400-599, an
\* unparseable body, a body status other than "success"
FailureAnswers ==
    { ans \in GeoAnswers :
        \/ ans.kind = "transport"
        \/ ans.code >= 400 /\ ans.code <= 599
        \/ ans.body.parse = "error"
        \/ BodyStatus(ans.body) # "success" }

C2_OnlySuccessStored == \A ip \in DOMAIN IP_CACHE : IsSuccess(IP_CACHE[ip])

\* The fetches answered from the set answers leave IP_CACHE as it is and
\* return no success record; a lookup of an address that is not stored goes
\* on to the fetch, and the fetch makes an outbound request.
FailuresLeaveCache(answers) ==
    /\ \A r \in InFlight :
          (r.pc = "fetch" /\ StepOf(r)) =>
              \A ans \in answers :
                  GeoFetchWith(r, ans) =>
                      /\ IP_CACHE' = IP_CACHE
                      /\ \A r2 \in BagToSet(requests') :
                            Moves(r, r2) => ~IsSuccess(r2.location)
    /\ \A r \in InFlight, r2 \in BagToSet(requests') :
          /\ (LookupStep(r, r2) /\ r.user_ip \notin DOMAIN IP_CACHE) =>
                r2.pc = "fetch"
          /\ FetchStep(r, r2) => r2.geoCalls = r.geoCalls + 1

\* C2 as claimed: every value in IP_CACHE is a success record; a lookup
\* that ends on a failure path (transport error, status outside 200-299,
\* unparseable body, body status other than "success") leaves IP_CACHE as
\* it is, so a later lookup of an address that only ever failed fetches
\* again.
C2_Claimed ==
    []C2_OnlySuccessStored /\ [][FailuresLeaveCache(ClaimedFailureAnswers)]_vars

\* C2 as amended: every value in IP_CACHE is a success record; a lookup
\* that ends on a failure path (transport error, status 400-599,
\* unparseable body, body status other than "success") leaves IP_CACHE as
\* it is, so a later lookup of an address that only ever failed fetches
\* again.
C2_FailuresNotCached ==
    []C2_OnlySuccessStored /\ [][FailuresLeaveCache(FailureAnswers)]_vars

\* A request whose fetch failed, its address still not stored, while
\* another request for the same address is about to fetch again
C2_Witness ==
    \E r \in InFlight, q \in InFlight :
        /\ r.pc = "render"
        /\ r.geoCalls = 1
        /\ IsFailure(r.location)
        /\ r.user_ip \notin DOMAIN IP_CACHE
        /\ q.pc = "fetch"
        /\ q.user_ip = r.user_ip

(* C3 *)
\* C3: whatever the two services answer, no exception leaves index: every
\* request ends at the render step, with an address string and a GeoResult
\* (a success record or a failure with a message).
C3_AllErrorsCaught ==
    \A r \in InFlight :
        /\ r.pc # "error500"
        /\ r.pc = "render" =>
              /\ r.user_ip # NoStr
              /\ IsSuccess(r.location) \/ IsFailure(r.location)

(* C4 *)
\* The addresses ipify can report
ReportedIPs ==
    { b.obj["ip"] :
        b \in { x \in IpifyBodies :
                  x.parse = "ok" /\ x.type = "object" /\ "ip" \in DOMAIN x.obj } }

\* What C4 asks of a step
C4_Step ==
    \A r \in InFlight, r2 \in BagToSet(requests') :
        (r.pc = "resolve" /\ Moves(r, r2)) =>
            /\ r2.ipifyCalls = (IF r.ip_address = Loopback THEN 1 ELSE 0)
            /\ r2.pc = "index"
            /\ r.ip_address # Loopback => r2.user_ip = r.ip_address
            /\ r.ip_address = Loopback =>
                  \/ ~r2.resolveFailed /\ r2.user_ip \in ReportedIPs
                  \/ r2.resolveFailed /\ r2.user_ip = UnableToFetch

\* C4: get_ip_address makes an outbound request exactly when the candidate
\* is '127.0.0.1', and then one; any other candidate is returned as it is;
\* for '127.0.0.1' it returns the address ipify reports, or the
\* resolution failure.
C4_OneDiscoveryOnLoopback == [][C4_Step]_vars

(* C5 *)
\* C5: at the render step, the lookup was skipped exactly when
\* get_ip_address failed; then the GeoResult is "Could not determine your
\* IP address." and no outbound geolocation request was made.
C5_SkipOnlyOnResolutionFailure ==
    \A r \in InFlight :
        r.pc = "render" =>
            /\ r.lookupCalled <=> ~r.resolveFailed
            /\ r.resolveFailed =>
                  r.location = CouldNotDetermine /\ r.geoCalls = 0

(* C6 *)
\* What C6 asks of a step
C6_Step ==
    \A r \in InFlight, c \in HttpCodes :
        ( /\ r.pc = "fetch"
          /\ StepOf(r)
          /\ Is2xx(c)
          /\ GeoFetchWith(r, HttpAnswer(c, Unparseable)) )
        => \E r2 \in BagToSet(requests') :
              /\ Moves(r, r2)
              /\ r2.location = ProcessingError
              /\ r2.location # NetworkError
              /\ IP_CACHE' = IP_CACHE

\* C6: a 2xx answer of ip-api whose body cannot be parsed makes
\* get_geolocation_data return "Error processing geolocation data.", not
\* the transport failure, with IP_CACHE as it was.
C6_UnparseableBody == [][C6_Step]_vars

(* C7 *)
\* A fetch answered ans ends with "Service unavailable or invalid IP." and
\* IP_CACHE as it was
EndsServiceUnavailable(r, ans) ==
    GeoFetchWith(r, ans) =>
        \E r2 \in BagToSet(requests') :
            /\ Moves(r, r2)
            /\ r2.pc = "render"
            /\ r2.location = ServiceUnavailable
            /\ IP_CACHE' = IP_CACHE

\* The answers with a status outside 200-299
Not2xxAnswers == { ans \in GeoAnswers : ans.kind = "http" /\ ~Is2xx(ans.code) }

C7_Claimed_Step ==
    \A r \in InFlight :
        (r.pc = "fetch" /\ StepOf(r)) =>
            \A ans \in Not2xxAnswers : EndsServiceUnavailable(r, ans)

\* C7 as claimed: every HTTP status outside 200-299, whatever the body,
\* ends with "Service unavailable or invalid IP." and no write to IP_CACHE.
C7_Claimed == [][C7_Claimed_Step]_vars

\* The answers with a status 400-599
ErrorStatusAnswers ==
    { ans \in GeoAnswers :
        ans.kind = "http" /\ ans.code >= 400 /\ ans.code <= 599 }

C7_Step ==
    \A r \in InFlight :
        (r.pc = "fetch" /\ StepOf(r)) =>
            \A ans \in ErrorStatusAnswers : EndsServiceUnavailable(r, ans)

\* C7 as amended: every HTTP status 400-599, whatever the body, ends with
\* "Service unavailable or invalid IP." and no write to IP_CACHE.
C7_ErrorStatus == [][C7_Step]_vars

\* A fetch has ended with "Service unavailable or invalid IP."
C7_Witness ==
    \E r \in InFlight :
        /\ r.pc = "render"
        /\ r.geoCalls = 1
        /\ r.location = ServiceUnavailable
        /\ r.user_ip \notin DOMAIN IP_CACHE

(* C8 *)
\* C8: the candidate is the header's first comma-separated value, trimmed,
\* if the header is present and not empty, and the remote address in every
\* other case.
C8_CandidateSelection ==
    \A r \in InFlight :
        r.pc = "resolve" =>
            r.ip_address =
                IF r.xff # <<>> /\ r.xff[1] # EmptyStr
                  THEN Strip(FirstField(r.xff[1]))
                  ELSE r.remote_addr

(* C9 *)
\* What C9 as claimed asks of a step
C9_Claimed_Step ==
    IP_CACHE' # IP_CACHE =>
        \E ip \in DOMAIN IP_CACHE' \ DOMAIN IP_CACHE :
            /\ DOMAIN IP_CACHE' = DOMAIN IP_CACHE \cup {ip}
            /\ IsSuccess(IP_CACHE'[ip])
            /\ \A k \in DOMAIN IP_CACHE : IP_CACHE'[k] = IP_CACHE[k]

\* C9 as claimed: IP_CACHE changes only by a success record being put
\* under a key it does not hold; every entry it held stays as it was.
C9_Claimed == [][C9_Claimed_Step]_vars

\* What C9 as amended asks of a step
C9_Step ==
    IP_CACHE' # IP_CACHE =>
        \E r \in InFlight, r2 \in BagToSet(requests') :
            /\ FetchStep(r, r2)
            /\ IsSuccess(r2.location)
            /\ DOMAIN IP_CACHE' = DOMAIN IP_CACHE \cup {r.user_ip}
            /\ IP_CACHE'[r.user_ip] = r2.location
            /\ \A k \in DOMAIN IP_CACHE \ {r.user_ip} : IP_CACHE'[k] = IP_CACHE[k]

\* C9 as amended: IP_CACHE changes only by a fetch putting the success
\* record it returns under its own address, which IP_CACHE may hold by
\* then; no key is removed and the entries of the other keys stay.
C9_OnlyUpserts == [][C9_Step]_vars

\* Two fetches of one address have both stored: the record of the first
\* has been replaced by that of the second
C9_Witness ==
    \E r \in InFlight :
        /\ r.pc = "render"
        /\ r.geoCalls = 1
        /\ IsSuccess(r.location)
        /\ r.user_ip \in DOMAIN IP_CACHE
        /\ IP_CACHE[r.user_ip] # r.location

(* C10 *)
\* C10: a request makes at most one outbound request to ipify and at most
\* one to ip-api; once ipify has answered the request goes on in index,
\* and once ip-api has answered it is at the render step.
C10_NoRetries ==
    \A r \in InFlight :
        /\ r.ipifyCalls <= 1
        /\ r.geoCalls <= 1
        /\ r.ipifyCalls = 1 => r.pc \in { "index", "fetch", "render" }
        /\ r.geoCalls = 1 => r.pc = "render"

====
